---- MODULE Spec2Model ----
(***************************************************************************)
(* Model of create_merge.py: the nearest-centroid state classifier, the    *)
(* three builders (temporal, geographic, detail) and the main pipeline.    *)
(*                                                                         *)
(* Representation of Python values                                         *)
(*   - a JSON scalar is a record [t, n, s]: Null, Num(x) or Str(chars);    *)
(*   - a str is the sequence of its characters, each a one-token string    *)
(*     ("sup2" stands for U+00B2 SUPERSCRIPT TWO);                         *)
(*   - latitudes and longitudes are exact hundredths of a degree           *)
(*     (36.78 is 3678), ratios are exact tenths (400.0 is 4000);           *)
(*   - a dict is a function whose DOMAIN is the set of keys present;       *)
(*   - the outcome of a call is a record [st, val, exc]: Returned(v) or    *)
(*     Raised(e), NotComputed before the call.                             *)
(***************************************************************************)
EXTENDS Integers, Sequences, FiniteSets, TLC

VARIABLES
    fn,             \* function-level runs: the function called last
    lat, lng,       \* function-level runs: arguments of assign_us_state
    closest,        \* function-level runs: outcome of assign_us_state
    pc,             \* main: position in main()
    meteorites, ufo_by_year, ufo_by_state,  \* the loaded inputs / arguments
    timeline,       \* outcome of build_temporal_comparison
    state_data,     \* outcome of build_geographic_comparison (the table)
    us_meteorites,  \* second value returned by build_geographic_comparison
    met_detail,     \* outcome of build_meteorite_detail
    us_count,       \* main: number of detail records with is_us
    loaded,         \* main: the inputs loaded so far
    out_file,       \* main: the output file ("untouched", "opened", "written")
    error           \* main: the exception that ended the run, "none" otherwise

vars == <<fn, lat, lng, closest, pc,
          meteorites, ufo_by_year, ufo_by_state, timeline, state_data,
          us_meteorites, met_detail, us_count, loaded, out_file, error>>

----------------------------------------------------------------------------
(* Bounds of the model *)

MaxMeteorites == 3
MaxUfoYears == 2
MaxUfoStates == 2
MaxFileEntries == 2

----------------------------------------------------------------------------
(* Python values *)

Null == [t |-> "null", n |-> 0, s |-> <<>>]
Num(x) == [t |-> "num", n |-> x, s |-> <<>>]
Str(cs) == [t |-> "str", n |-> 0, s |-> cs]

NotComputed == [st |-> "none", val |-> <<>>, exc |-> "none"]
Returned(v) == [st |-> "ok", val |-> v, exc |-> "none"]
Raised(e) == [st |-> "raise", val |-> <<>>, exc |-> e]

\* dict.get(key, default)
Get(m, key, default) == IF key \in DOMAIN m THEN m[key] ELSE default

\* truth value of a Python object: None, 0 and '' are false
Truthy(v) ==
    CASE v.t = "null" -> FALSE
      [] v.t = "num" -> v.n # 0
      [] v.t = "str" -> v.s # <<>>

----------------------------------------------------------------------------
(* Characters and strings *)

AsciiDigits == <<"0", "1", "2", "3", "4", "5", "6", "7", "8", "9">>

\* characters for which str.isdigit() is true although int() rejects them
OtherDigits == {"sup2"}

\* the characters of the model in increasing code point order
Alphabet ==
    <<"-">> \o AsciiDigits \o
    <<"A", "B", "C", "D", "E", "F", "G", "H", "I", "J", "K", "L", "M",
      "N", "O", "P", "Q", "R", "S", "T", "U", "V", "W", "X", "Y", "Z",
      "a", "b", "c", "d", "e", "f", "g", "h", "i", "j", "k", "l", "m",
      "n", "o", "p", "q", "r", "s", "t", "u", "v", "w", "x", "y", "z",
      "sup2">>

Ord(c) == CHOOSE i \in 1..Len(Alphabet) : Alphabet[i] = c

IsAsciiDigit(c) == \E i \in 1..Len(AsciiDigits) : AsciiDigits[i] = c

DigitValue(c) == (CHOOSE i \in 1..Len(AsciiDigits) : AsciiDigits[i] = c) - 1

\* str.isdigit(): non-empty and every character is a digit character
IsDigit(cs) ==
    /\ cs # <<>>
    /\ \A i \in 1..Len(cs) : IsAsciiDigit(cs[i]) \/ cs[i] \in OtherDigits

\* cs[:k]
Prefix(cs, k) == SubSeq(cs, 1, IF Len(cs) < k THEN Len(cs) ELSE k)

RECURSIVE DecimalValue(_)
DecimalValue(cs) ==
    IF cs = <<>> THEN 0
    ELSE 10 * DecimalValue(SubSeq(cs, 1, Len(cs) - 1)) + DigitValue(cs[Len(cs)])

\* int(cs) for a string that passed isdigit(): the value, or ValueError when
\* a character is not a decimal digit
ParseInt(cs) ==
    IF \A i \in 1..Len(cs) : IsAsciiDigit(cs[i])
    THEN Returned(DecimalValue(cs))
    ELSE Raised("ValueError")

\* cs < ds for two str (lexicographic by code point)
RECURSIVE StrLess(_, _)
StrLess(cs, ds) ==
    IF ds = <<>> THEN FALSE
    ELSE IF cs = <<>> THEN TRUE
    ELSE IF cs[1] # ds[1] THEN Ord(cs[1]) < Ord(ds[1])
    ELSE StrLess(Tail(cs), Tail(ds))

----------------------------------------------------------------------------
(* assign_us_state *)

C(a, b) == <<a, b>>

state_centroids ==
    << <<C("C","A"), 3678, -11942>>, <<C("T","X"), 3197, -9990>>,
       <<C("F","L"), 2766, -8152>>,  <<C("N","Y"), 4217, -7495>>,
       <<C("P","A"), 4120, -7719>>,  <<C("I","L"), 4063, -8940>>,
       <<C("O","H"), 4042, -8291>>,  <<C("G","A"), 3216, -8290>>,
       <<C("N","C"), 3576, -7902>>,  <<C("M","I"), 4431, -8560>>,
       <<C("N","J"), 4006, -7441>>,  <<C("V","A"), 3743, -7866>>,
       <<C("W","A"), 4775, -12074>>, <<C("A","Z"), 3405, -11109>>,
       <<C("M","A"), 4241, -7138>>,  <<C("T","N"), 3552, -8658>>,
       <<C("I","N"), 4027, -8613>>,  <<C("M","O"), 3857, -9260>>,
       <<C("M","D"), 3905, -7664>>,  <<C("W","I"), 4378, -8879>>,
       <<C("C","O"), 3955, -10578>>, <<C("M","N"), 4673, -9469>>,
       <<C("S","C"), 3400, -8103>>,  <<C("A","L"), 3232, -8690>>,
       <<C("L","A"), 3098, -9196>>,  <<C("K","Y"), 3784, -8427>>,
       <<C("O","R"), 4380, -12055>>, <<C("O","K"), 3547, -9752>>,
       <<C("C","T"), 4160, -7276>>,  <<C("U","T"), 3932, -11109>>,
       <<C("I","A"), 4188, -9310>>,  <<C("N","V"), 3880, -11642>>,
       <<C("A","R"), 3520, -9183>>,  <<C("M","S"), 3235, -8940>>,
       <<C("K","S"), 3853, -9877>>,  <<C("N","M"), 3452, -10587>>,
       <<C("N","E"), 4149, -9990>>,  <<C("I","D"), 4407, -11474>>,
       <<C("W","V"), 3860, -8045>>,  <<C("M","E"), 4525, -6945>>,
       <<C("M","T"), 4688, -11036>>, <<C("N","D"), 4755, -10100>>,
       <<C("S","D"), 4397, -9990>>,  <<C("W","Y"), 4308, -10729>>,
       <<C("V","T"), 4456, -7258>>,  <<C("N","H"), 4319, -7157>>,
       <<C("D","E"), 3891, -7553>>,  <<C("R","I"), 4158, -7148>>
    >>

\* float('inf'): greater than every distance
Inf == -1

\* d <= min_dist
DistLess_OrEqual(d, min_dist) == min_dist = Inf \/ d <= min_dist

\* d < min_dist
DistLess(d, min_dist) == min_dist = Inf \/ d < min_dist

\* 24.0 <= lat <= 50.0 and -125.0 <= lng <= -66.0
InBox_Closed(la, ln) == 2400 <= la /\ la <= 5000 /\ -12500 <= ln /\ ln <= -6600

\* 24.0 < lat < 50.0 and -125.0 < lng < -66.0
InBox(la, ln) == 2400 < la /\ la < 5000 /\ -12500 < ln /\ ln < -6600

SquaredDist(la, ln, i) ==
    (la - state_centroids[i][2]) * (la - state_centroids[i][2])
    + (ln - state_centroids[i][3]) * (ln - state_centroids[i][3])

\* the loop over state_centroids.items(), from entry i on
RECURSIVE NearestFrom(_, _, _, _, _)
NearestFrom(i, la, ln, min_dist, best) ==
    IF i > Len(state_centroids) THEN best
    ELSE LET d == SquaredDist(la, ln, i)
         IN  IF DistLess(d, min_dist)
             THEN NearestFrom(i + 1, la, ln, d, Str(state_centroids[i][1]))
             ELSE NearestFrom(i + 1, la, ln, min_dist, best)

assign_us_state(la, ln) ==
    IF la.t = "null" \/ ln.t = "null" THEN Null
    ELSE IF ~InBox(la.n, ln.n) THEN Null
    ELSE NearestFrom(1, la.n, ln.n, Inf, Null)

----------------------------------------------------------------------------
(* Inputs of the model *)

SeqsUpTo(S, n) == UNION {[1..k -> S] : k \in 0..n}

Text(a) == Str(<<a>>)

MetA ==
    [name |-> Text("A"), date |-> Str(<<"1","9","6","9","-","0","3","-","1","5">>),
     latitude |-> Num(3678), longitude |-> Num(-11942), mass_g |-> Num(100),
     meteorite_class |-> Text("L"), fall_type |-> Text("F")]
\* no date, null latitude
MetB ==
    [name |-> Text("B"), latitude |-> Null, longitude |-> Num(-9990),
     mass_g |-> Null, meteorite_class |-> Text("H"), fall_type |-> Text("F")]
\* malformed date, as far from the TN centroid as from the AL centroid
MetC ==
    [name |-> Text("C"), date |-> Str(<<"1","9","a","9","-","0","1">>),
     latitude |-> Num(3395), longitude |-> Num(-8704), mass_g |-> Num(5),
     meteorite_class |-> Text("L"), fall_type |-> Text("F")]
\* a fall before 1900, outside the box
MetD ==
    [name |-> Text("D"), date |-> Str(<<"1","8","9","9","-","1","2">>),
     latitude |-> Num(5100), longitude |-> Num(0), mass_g |-> Num(7),
     meteorite_class |-> Text("H"), fall_type |-> Text("F")]
\* empty date, null longitude
MetE ==
    [name |-> Text("E"), date |-> Str(<<>>),
     latitude |-> Num(3700), longitude |-> Null, mass_g |-> Num(9),
     meteorite_class |-> Text("L"), fall_type |-> Text("F")]
\* a date whose first character is U+00B2, at the TX centroid
MetF ==
    [name |-> Text("F"), date |-> Str(<<"sup2","0","1","9","-","0","1">>),
     latitude |-> Num(3197), longitude |-> Num(-9990), mass_g |-> Num(3),
     meteorite_class |-> Text("H"), fall_type |-> Text("F")]

MetSamples == {MetA, MetB, MetC, MetD, MetE, MetF}

YearA == [year |-> Num(1969), count |-> 5]
YearB == [year |-> Num(1969), count |-> 7]
YearC == [year |-> Str(<<"1","9","9","9">>), count |-> 3]
YearD == [count |-> 9]
YearE == [year |-> Num(2026), count |-> 4]
YearF == [year |-> Num(1900)]

UfoYearSamples == {YearA, YearB, YearC, YearD, YearE, YearF}

StateA == [state |-> Str(<<"C","A">>), count |-> 4000]
StateB == [state |-> Str(<<"C","A">>), count |-> 5]
StateC == [state |-> Str(<<"a","k">>), count |-> 12]
StateD == [state |-> Str(<<"U","S","A">>), count |-> 1]

UfoStateSamples == {StateA, StateB, StateC, StateD}

CentroidPoints ==
    {<<Num(state_centroids[i][2]), Num(state_centroids[i][3])>> :
        i \in 1..Len(state_centroids)}

OtherPoints ==
    {<<Null, Num(-9990)>>, <<Num(3678), Null>>, <<Null, Null>>,
     <<Num(2400), Num(-10000)>>, <<Num(5000), Num(-10000)>>,
     <<Num(3000), Num(-12500)>>, <<Num(3000), Num(-6600)>>,
     <<Num(2401), Num(-12499)>>, <<Num(4999), Num(-6601)>>,
     <<Num(3395), Num(-8704)>>, <<Num(3712), Num(-8014)>>,
     <<Num(3700), Num(-12000)>>, <<Num(5100), Num(0)>>, <<Num(0), Num(0)>>,
     <<Num(6420), Num(-14949)>>, <<Num(2130), Num(-15780)>>}

PointSamples == CentroidPoints \cup OtherPoints

\* a file on disk: absent, not JSON, or a JSON list
MissingFile == [status |-> "missing", content |-> <<>>]
MalformedFile == [status |-> "malformed", content |-> <<>>]
JsonFile(list) == [status |-> "ok", content |-> list]

\* the records the input files of a run of main are made of
FileMetSamples == MetSamples
FileUfoYearSamples == {YearA, YearC, YearF}
FileUfoStateSamples == {StateA, StateC}

FilesOf(S) ==
    {MissingFile, MalformedFile} \cup {JsonFile(l) : l \in SeqsUpTo(S, MaxFileEntries)}

----------------------------------------------------------------------------
(* Counter, dict and sorted() *)

\* counter[key] += 1
Increment(counter, key) ==
    IF key \in DOMAIN counter
    THEN [counter EXCEPT ![key] = @ + 1]
    ELSE [k \in DOMAIN counter \cup {key} |->
            IF k = key THEN 1 ELSE counter[k]]

\* d[key] = value
SetItem(d, key, value) ==
    [k \in DOMAIN d \cup {key} |-> IF k = key THEN value ELSE d[k]]

EmptyDict == [k \in {} |-> 0]

\* sorted(set(...)) of integers
RECURSIVE SortedInts(_)
SortedInts(S) ==
    IF S = {} THEN <<>>
    ELSE LET least == CHOOSE x \in S : \A y \in S : x <= y
         IN  <<least>> \o SortedInts(S \ {least})

\* sorted(set(...)) of str
RECURSIVE SortedStrs(_)
SortedStrs(S) ==
    IF S = {} THEN <<>>
    ELSE LET least == CHOOSE x \in S : \A y \in S : x = y \/ StrLess(x, y)
         IN  <<least>> \o SortedStrs(S \ {least})

----------------------------------------------------------------------------
(* build_temporal_comparison *)

\* date and len(date) >= 4 and date[:4].isdigit()
HasYearPrefix(date) ==
    Truthy(date) /\ Len(date.s) >= 4 /\ IsDigit(Prefix(date.s, 4))

\* 1900 <= year <= 2025
InYearRange(year) == 1900 <= year /\ year <= 2025

\* the loop over meteorites, from element i on
RECURSIVE CountMetYears(_, _, _)
CountMetYears(ms, i, met_by_year) ==
    IF i > Len(ms) THEN Returned(met_by_year)
    ELSE LET date == Get(ms[i], "date", Str(<<>>))
         IN  IF HasYearPrefix(date)
             THEN LET year == ParseInt(Prefix(date.s, 4))
                  IN  IF year.st = "raise" THEN year
                      ELSE IF InYearRange(year.val)
                           THEN CountMetYears(ms, i + 1,
                                              Increment(met_by_year, year.val))
                           ELSE CountMetYears(ms, i + 1, met_by_year)
             ELSE CountMetYears(ms, i + 1, met_by_year)

\* year and 1900 <= year <= 2025: comparing an int with a str raises TypeError
UfoYearTest(year) ==
    IF ~Truthy(year) THEN Returned(FALSE)
    ELSE IF year.t = "str" THEN Raised("TypeError")
    ELSE Returned(InYearRange(year.n))

\* CollectUfoYears keeping the first entry of a year instead of the last
RECURSIVE CollectUfoYears_FirstWins(_, _, _)
CollectUfoYears_FirstWins(ys, i, ufo_years) ==
    IF i > Len(ys) THEN Returned(ufo_years)
    ELSE LET year == Get(ys[i], "year", Null)
             count == Get(ys[i], "count", 0)
             test == UfoYearTest(year)
         IN  IF test.st = "raise" THEN test
             ELSE IF test.val /\ year.n \notin DOMAIN ufo_years
                  THEN CollectUfoYears_FirstWins(ys, i + 1,
                                                 SetItem(ufo_years, year.n, count))
                  ELSE CollectUfoYears_FirstWins(ys, i + 1, ufo_years)

\* the loop over ufo_by_year, from element i on
RECURSIVE CollectUfoYears(_, _, _)
CollectUfoYears(ys, i, ufo_years) ==
    IF i > Len(ys) THEN Returned(ufo_years)
    ELSE LET year == Get(ys[i], "year", Null)
             count == Get(ys[i], "count", 0)
             test == UfoYearTest(year)
         IN  IF test.st = "raise" THEN test
             ELSE IF test.val
                  THEN CollectUfoYears(ys, i + 1, SetItem(ufo_years, year.n, count))
                  ELSE CollectUfoYears(ys, i + 1, ufo_years)

\* JoinYears over the years that both sources have
JoinYears_Inner(met_by_year, ufo_years) ==
    LET all_years == SortedInts(DOMAIN met_by_year \cap DOMAIN ufo_years)
    IN  [k \in 1..Len(all_years) |->
            [year |-> all_years[k],
             meteorite_falls |-> Get(met_by_year, all_years[k], 0),
             ufo_sightings |-> Get(ufo_years, all_years[k], 0)]]

JoinYears(met_by_year, ufo_years) ==
    LET all_years == SortedInts(DOMAIN met_by_year \cup DOMAIN ufo_years)
    IN  [k \in 1..Len(all_years) |->
            [year |-> all_years[k],
             meteorite_falls |-> Get(met_by_year, all_years[k], 0),
             ufo_sightings |-> Get(ufo_years, all_years[k], 0)]]

build_temporal_comparison(ms, ys) ==
    LET met_by_year == CountMetYears(ms, 1, EmptyDict)
    IN  IF met_by_year.st = "raise" THEN met_by_year
        ELSE LET ufo_years == CollectUfoYears(ys, 1, EmptyDict)
             IN  IF ufo_years.st = "raise" THEN ufo_years
                 ELSE Returned(JoinYears(met_by_year.val, ufo_years.val))

----------------------------------------------------------------------------
(* build_geographic_comparison *)

\* assign_us_state is pure: its values at the points of the model, computed once
AssignedState ==
    [p \in PointSamples \cup
            {<<Get(m, "latitude", Null), Get(m, "longitude", Null)>> : m \in MetSamples}
        |-> assign_us_state(p[1], p[2])]

\* assign_us_state(m.get('latitude'), m.get('longitude'))
MetState(m) ==
    LET p == <<Get(m, "latitude", Null), Get(m, "longitude", Null)>>
    IN  IF p \in DOMAIN AssignedState THEN AssignedState[p]
        ELSE assign_us_state(p[1], p[2])

\* CountMetStates adding every meteorite that has coordinates to the total
RECURSIVE CountMetStates_AllLocated(_, _, _, _)
CountMetStates_AllLocated(ms, i, met_by_state, total) ==
    IF i > Len(ms) THEN <<met_by_state, total>>
    ELSE LET state == MetState(ms[i])
             located == IF Get(ms[i], "latitude", Null) # Null
                           /\ Get(ms[i], "longitude", Null) # Null
                        THEN 1 ELSE 0
         IN  IF Truthy(state)
             THEN CountMetStates_AllLocated(ms, i + 1,
                    Increment(met_by_state, state.s), total + located)
             ELSE CountMetStates_AllLocated(ms, i + 1, met_by_state,
                                            total + located)

\* the loop over meteorites: the pair (met_by_state, us_meteorites)
RECURSIVE CountMetStates(_, _, _, _)
CountMetStates(ms, i, met_by_state, total) ==
    IF i > Len(ms) THEN <<met_by_state, total>>
    ELSE LET state == MetState(ms[i])
         IN  IF Truthy(state)
             THEN CountMetStates(ms, i + 1, Increment(met_by_state, state.s),
                                 total + 1)
             ELSE CountMetStates(ms, i + 1, met_by_state, total)

\* state and len(state) == 2
IsStateCode(state) == Truthy(state) /\ Len(state.s) = 2

\* the loop over ufo_by_state, from element i on
RECURSIVE CollectUfoStates(_, _, _)
CollectUfoStates(us, i, ufo_states) ==
    IF i > Len(us) THEN ufo_states
    ELSE LET state == Get(us[i], "state", Str(<<>>))
             count == Get(us[i], "count", 0)
         IN  IF IsStateCode(state)
             THEN CollectUfoStates(us, i + 1, SetItem(ufo_states, state.s, count))
             ELSE CollectUfoStates(us, i + 1, ufo_states)

\* RoundedRatio cutting the digits after the first decimal off
RoundedRatio_Truncated(ufo, met) ==
    IF met = 0 THEN Raised("ZeroDivisionError")
    ELSE Returned(Num((10 * ufo) \div met))

\* round(ufo / met, 1) in tenths: the nearest tenth, an exact tie going to the
\* even tenth (ufo / met is a tie only when it is a multiple of 1/4, which a
\* double holds exactly, as long as met < 20); ZeroDivisionError when met = 0
RoundedRatio(ufo, met) ==
    IF met = 0 THEN Raised("ZeroDivisionError")
    ELSE LET whole == (10 * ufo) \div met
             rest == (10 * ufo) % met
         IN  IF 2 * rest < met THEN Returned(Num(whole))
             ELSE IF 2 * rest > met THEN Returned(Num(whole + 1))
             ELSE IF whole % 2 = 0 THEN Returned(Num(whole))
             ELSE Returned(Num(whole + 1))

\* round(ufo / met, 1) if met > 0 else None
Ratio(ufo, met) ==
    IF met > 0 THEN RoundedRatio(ufo, met) ELSE Returned(Null)

\* the loop over all_states, from element k on
RECURSIVE JoinStates(_, _, _, _, _)
JoinStates(all_states, k, met_by_state, ufo_states, state_comparison) ==
    IF k > Len(all_states) THEN Returned(state_comparison)
    ELSE LET met == Get(met_by_state, all_states[k], 0)
             ufo == Get(ufo_states, all_states[k], 0)
             ratio == Ratio(ufo, met)
         IN  IF ratio.st = "raise" THEN ratio
             ELSE JoinStates(all_states, k + 1, met_by_state, ufo_states,
                    Append(state_comparison,
                           [state |-> all_states[k],
                            meteorite_falls |-> met,
                            ufo_sightings |-> ufo,
                            ufo_per_meteorite |-> ratio.val]))

\* the pair returned: <<outcome with the state table, us_meteorites>>
build_geographic_comparison(ms, us) ==
    LET counted == CountMetStates(ms, 1, EmptyDict, 0)
        ufo_states == CollectUfoStates(us, 1, EmptyDict)
        all_states == SortedStrs(DOMAIN counted[1] \cup DOMAIN ufo_states)
    IN  <<JoinStates(all_states, 1, counted[1], ufo_states, <<>>), counted[2]>>

----------------------------------------------------------------------------
(* build_meteorite_detail *)

DetailRecord(m, date, year) ==
    [name |-> Get(m, "name", Null),
     latitude |-> Get(m, "latitude", Null),
     longitude |-> Get(m, "longitude", Null),
     date |-> IF Truthy(date) THEN date ELSE Null,
     year |-> year,
     mass_g |-> Get(m, "mass_g", Null),
     meteorite_class |-> Get(m, "meteorite_class", Null),
     fall_type |-> Get(m, "fall_type", Null),
     us_state |-> MetState(m),
     is_us |-> MetState(m) # Null]

\* the loop over meteorites, from element i on
RECURSIVE DetailFrom(_, _, _)
DetailFrom(ms, i, records) ==
    IF i > Len(ms) THEN Returned(records)
    ELSE LET date == Get(ms[i], "date", Str(<<>>))
         IN  IF HasYearPrefix(date)
             THEN LET year == ParseInt(Prefix(date.s, 4))
                  IN  IF year.st = "raise" THEN year
                      ELSE DetailFrom(ms, i + 1,
                             Append(records, DetailRecord(ms[i], date, Num(year.val))))
             ELSE DetailFrom(ms, i + 1, Append(records, DetailRecord(ms[i], date, Null)))

build_meteorite_detail(ms) == DetailFrom(ms, 1, <<>>)

----------------------------------------------------------------------------
(* Function-level runs: one call of one function on inputs of the model *)

NoCall ==
    /\ fn = "none"
    /\ lat = Null /\ lng = Null /\ closest = NotComputed
    /\ meteorites = <<>> /\ ufo_by_year = <<>> /\ ufo_by_state = <<>>
    /\ timeline = NotComputed /\ state_data = NotComputed /\ us_meteorites = 0
    /\ met_detail = NotComputed /\ us_count = 0

MainIdle ==
    /\ pc = "idle" /\ loaded = {} /\ out_file = "untouched" /\ error = "none"

Init == NoCall /\ MainIdle

mainVars == <<pc, loaded, out_file, error>>

CallAssign ==
    /\ fn = "none"
    /\ \E p \in PointSamples :
        /\ lat' = p[1] /\ lng' = p[2]
        /\ closest' = Returned(assign_us_state(p[1], p[2]))
    /\ fn' = "assign_us_state"
    /\ UNCHANGED <<meteorites, ufo_by_year, ufo_by_state, timeline, state_data,
                   us_meteorites, met_detail, us_count>>
    /\ UNCHANGED mainVars

CallTemporal ==
    /\ fn = "none"
    /\ \E ms \in SeqsUpTo(MetSamples, MaxMeteorites),
          ys \in SeqsUpTo(UfoYearSamples, MaxUfoYears) :
        /\ meteorites' = ms /\ ufo_by_year' = ys
        /\ timeline' = build_temporal_comparison(ms, ys)
    /\ fn' = "build_temporal_comparison"
    /\ UNCHANGED <<lat, lng, closest, ufo_by_state, state_data, us_meteorites,
                   met_detail, us_count>>
    /\ UNCHANGED mainVars

CallGeographic ==
    /\ fn = "none"
    /\ \E ms \in SeqsUpTo(MetSamples, MaxMeteorites),
          us \in SeqsUpTo(UfoStateSamples, MaxUfoStates) :
        LET returned == build_geographic_comparison(ms, us)
        IN  /\ meteorites' = ms /\ ufo_by_state' = us
            /\ state_data' = returned[1]
            /\ us_meteorites' = returned[2]
    /\ fn' = "build_geographic_comparison"
    /\ UNCHANGED <<lat, lng, closest, ufo_by_year, timeline, met_detail, us_count>>
    /\ UNCHANGED mainVars

CallDetail ==
    /\ fn = "none"
    /\ \E ms \in SeqsUpTo(MetSamples, MaxMeteorites) :
        /\ meteorites' = ms
        /\ met_detail' = build_meteorite_detail(ms)
    /\ fn' = "build_meteorite_detail"
    /\ UNCHANGED <<lat, lng, closest, ufo_by_year, ufo_by_state, timeline,
                   state_data, us_meteorites, us_count>>
    /\ UNCHANGED mainVars

Next == CallAssign \/ CallTemporal \/ CallGeographic \/ CallDetail

Spec == Init /\ [][Next]_vars

----------------------------------------------------------------------------
(* main *)

callVars == <<fn, lat, lng, closest>>

MainInit ==
    /\ NoCall
    /\ pc = "load_meteorites" /\ loaded = {} /\ out_file = "untouched"
    /\ error = "none"

\* open() of an absent file, json.load() of a file that is not JSON
LoadError(f) ==
    IF f.status = "missing" THEN "FileNotFoundError" ELSE "JSONDecodeError"

\* with open(METEORITES) as f: meteorites = json.load(f)
LoadMeteorites ==
    /\ pc = "load_meteorites"
    /\ \E f \in FilesOf(FileMetSamples) :
        IF f.status = "ok"
        THEN /\ meteorites' = f.content
             /\ loaded' = loaded \cup {"meteorites"}
             /\ pc' = "load_ufo_by_year"
             /\ error' = error
        ELSE /\ pc' = "aborted"
             /\ error' = LoadError(f)
             /\ UNCHANGED <<meteorites, loaded>>
    /\ UNCHANGED <<ufo_by_year, ufo_by_state, timeline, state_data,
                   us_meteorites, met_detail, us_count, out_file>>
    /\ UNCHANGED callVars

\* with open(UFO_BY_YEAR) as f: ufo_by_year = json.load(f)
LoadUfoByYear ==
    /\ pc = "load_ufo_by_year"
    /\ \E f \in FilesOf(FileUfoYearSamples) :
        IF f.status = "ok"
        THEN /\ ufo_by_year' = f.content
             /\ loaded' = loaded \cup {"ufo_by_year"}
             /\ pc' = "load_ufo_by_state"
             /\ error' = error
        ELSE /\ pc' = "aborted"
             /\ error' = LoadError(f)
             /\ UNCHANGED <<ufo_by_year, loaded>>
    /\ UNCHANGED <<meteorites, ufo_by_state, timeline, state_data,
                   us_meteorites, met_detail, us_count, out_file>>
    /\ UNCHANGED callVars

\* with open(UFO_BY_STATE) as f: ufo_by_state = json.load(f)
LoadUfoByState ==
    /\ pc = "load_ufo_by_state"
    /\ \E f \in FilesOf(FileUfoStateSamples) :
        IF f.status = "ok"
        THEN /\ ufo_by_state' = f.content
             /\ loaded' = loaded \cup {"ufo_by_state"}
             /\ pc' = "temporal"
             /\ error' = error
        ELSE /\ pc' = "aborted"
             /\ error' = LoadError(f)
             /\ UNCHANGED <<ufo_by_state, loaded>>
    /\ UNCHANGED <<meteorites, ufo_by_year, timeline, state_data,
                   us_meteorites, met_detail, us_count, out_file>>
    /\ UNCHANGED callVars

\* timeline = build_temporal_comparison(meteorites, ufo_by_year)
BuildTemporal ==
    /\ pc = "temporal"
    /\ LET returned == build_temporal_comparison(meteorites, ufo_by_year)
       IN  /\ timeline' = returned
           /\ IF returned.st = "raise"
              THEN pc' = "aborted" /\ error' = returned.exc
              ELSE pc' = "geographic" /\ error' = error
    /\ UNCHANGED <<meteorites, ufo_by_year, ufo_by_state, state_data,
                   us_meteorites, met_detail, us_count, loaded, out_file>>
    /\ UNCHANGED callVars

\* state_data, us_meteorites = build_geographic_comparison(meteorites, ufo_by_state)
BuildGeographic ==
    /\ pc = "geographic"
    /\ LET returned == build_geographic_comparison(meteorites, ufo_by_state)
       IN  /\ state_data' = returned[1]
           /\ IF returned[1].st = "raise"
              THEN /\ pc' = "aborted" /\ error' = returned[1].exc
                   /\ us_meteorites' = us_meteorites
              ELSE /\ pc' = "detail" /\ error' = error
                   /\ us_meteorites' = returned[2]
    /\ UNCHANGED <<meteorites, ufo_by_year, ufo_by_state, timeline,
                   met_detail, us_count, loaded, out_file>>
    /\ UNCHANGED callVars

\* sum(1 for m in met_detail if m['is_us'])
CountUs(records) == Cardinality({i \in 1..Len(records) : records[i].is_us})

\* met_detail = build_meteorite_detail(meteorites) and us_count
BuildDetail ==
    /\ pc = "detail"
    /\ LET returned == build_meteorite_detail(meteorites)
       IN  /\ met_detail' = returned
           /\ IF returned.st = "raise"
              THEN /\ pc' = "aborted" /\ error' = returned.exc
                   /\ us_count' = us_count
              ELSE /\ pc' = "save" /\ error' = error
                   /\ us_count' = CountUs(returned.val)
    /\ UNCHANGED <<meteorites, ufo_by_year, ufo_by_state, timeline, state_data,
                   us_meteorites, loaded, out_file>>
    /\ UNCHANGED callVars

\* OUTPUT_DIR.mkdir(), open(output_path, 'w'), json.dump(): the write succeeds,
\* or fails before the file is opened, or fails after; the report printed after
\* a successful write only reads the results
Save ==
    /\ pc = "save"
    /\ \E outcome \in {"written", "untouched", "opened"} :
        /\ out_file' = outcome
        /\ IF outcome = "written"
           THEN pc' = "done" /\ error' = error
           ELSE pc' = "aborted" /\ error' = "OSError"
    /\ UNCHANGED <<meteorites, ufo_by_year, ufo_by_state, timeline, state_data,
                   us_meteorites, met_detail, us_count, loaded>>
    /\ UNCHANGED callVars

MainNext ==
    \/ LoadMeteorites \/ LoadUfoByYear \/ LoadUfoByState
    \/ BuildTemporal \/ BuildGeographic \/ BuildDetail
    \/ Save

MainSpec == MainInit /\ [][MainNext]_vars

----------------------------------------------------------------------------
(* Properties of the temporal and the geographic builder *)

\* the four characters that spell the year y
YearText(y) ==
    <<AsciiDigits[(y \div 1000) + 1], AsciiDigits[((y \div 100) % 10) + 1],
      AsciiDigits[((y \div 10) % 10) + 1], AsciiDigits[(y % 10) + 1]>>

\* the date of meteorite m starts with four digits spelling y
DateSpells(m, y) ==
    /\ "date" \in DOMAIN m
    /\ m.date.t = "str"
    /\ Len(m.date.s) >= 4
    /\ SubSeq(m.date.s, 1, 4) = YearText(y)

MetsOfYear(y) == {i \in 1..Len(meteorites) : DateSpells(meteorites[i], y)}

UfoEntriesOfYear(y) ==
    {i \in 1..Len(ufo_by_year) :
        "year" \in DOMAIN ufo_by_year[i] /\ ufo_by_year[i].year = Num(y)}

Last(I) == CHOOSE i \in I : \A j \in I : j <= i

CountOf(entry) == IF "count" \in DOMAIN entry THEN entry.count ELSE 0

\* the count of the last UFO year entry for y, 0 when there is none
UfoCountOfYear(y) ==
    IF UfoEntriesOfYear(y) = {} THEN 0
    ELSE CountOf(ufo_by_year[Last(UfoEntriesOfYear(y))])

\* C1: every entry of the timeline returned by build_temporal_comparison has
\* a year y in [1900,2025], meteorite_falls equal to the number of input
\* meteorites whose date starts with four digits spelling y, and ufo_sightings
\* equal to the count of the last UFO year entry for y (0 when there is none).
C1_TimelineCounts ==
    timeline.st = "ok" =>
        \A k \in 1..Len(timeline.val) :
            LET e == timeline.val[k]
            IN  /\ e.year \in 1900..2025
                /\ e.meteorite_falls = Cardinality(MetsOfYear(e.year))
                /\ e.ufo_sightings = UfoCountOfYear(e.year)

\* a timeline with a year that two meteorites fell in and that two UFO
\* entries with different counts name
C1_Witness ==
    /\ fn = "build_temporal_comparison"
    /\ timeline.st = "ok"
    /\ \E k \in 1..Len(timeline.val) :
        /\ timeline.val[k].meteorite_falls = 2
        /\ Len(meteorites) = 3
        /\ Cardinality(UfoEntriesOfYear(timeline.val[k].year)) = 2
        /\ ufo_by_year[1].count # ufo_by_year[2].count
        /\ timeline.val[k].ufo_sightings = ufo_by_year[2].count

\* the in-range years of the meteorites and of the UFO year entries
MetYears == {y \in 1900..2025 : MetsOfYear(y) # {}}
UfoYears == {y \in 1900..2025 : UfoEntriesOfYear(y) # {}}

\* the states assigned to the meteorites, the 2-character UFO state codes
MetStates ==
    {MetState(meteorites[i]).s :
        i \in {j \in 1..Len(meteorites) : MetState(meteorites[j]) # Null}}
UfoStates ==
    {ufo_by_state[i].state.s :
        i \in {j \in 1..Len(ufo_by_state) :
                /\ "state" \in DOMAIN ufo_by_state[j]
                /\ ufo_by_state[j].state.t = "str"
                /\ Len(ufo_by_state[j].state.s) = 2}}

YearsAscending(entries) ==
    \A k \in 1..Len(entries) - 1 : entries[k].year < entries[k + 1].year

StatesAscending(entries) ==
    \A k \in 1..Len(entries) - 1 : StrLess(entries[k].state, entries[k + 1].state)

\* C2: both joins are full outer joins in strictly ascending key order: the
\* years of the timeline are exactly the in-range meteorite years and UFO
\* years, the states of the state table are exactly the states assigned to
\* meteorites and the 2-character UFO state codes, each key appears once, and
\* a key of one source only has 0 for the other side.
C2_FullOuterJoins ==
    /\ timeline.st = "ok" =>
        LET met_years == MetYears
            ufo_years == UfoYears
        IN  /\ YearsAscending(timeline.val)
            /\ {timeline.val[k].year : k \in 1..Len(timeline.val)}
                  = met_years \cup ufo_years
            /\ \A k \in 1..Len(timeline.val) :
                /\ timeline.val[k].year \notin met_years
                      => timeline.val[k].meteorite_falls = 0
                /\ timeline.val[k].year \notin ufo_years
                      => timeline.val[k].ufo_sightings = 0
    /\ state_data.st = "ok" =>
        LET met_states == MetStates
            ufo_states == UfoStates
        IN  /\ StatesAscending(state_data.val)
            /\ {state_data.val[k].state : k \in 1..Len(state_data.val)}
                  = met_states \cup ufo_states
            /\ \A k \in 1..Len(state_data.val) :
                /\ state_data.val[k].state \notin met_states
                      => state_data.val[k].meteorite_falls = 0
                /\ state_data.val[k].state \notin ufo_states
                      => state_data.val[k].ufo_sightings = 0

\* a run of main whose timeline and state table each have a key of the
\* meteorites only and a key of the UFO source only
C2_Witness ==
    /\ timeline.st = "ok" /\ state_data.st = "ok"
    /\ \E k, l \in 1..Len(timeline.val) :
        /\ timeline.val[k].year \in MetYears \ UfoYears
        /\ timeline.val[l].year \in UfoYears \ MetYears
    /\ \E k, l \in 1..Len(state_data.val) :
        /\ state_data.val[k].state \in MetStates \ UfoStates
        /\ state_data.val[l].state \in UfoStates \ MetStates

\* C3: for every entry of the state table returned by
\* build_geographic_comparison, ufo_per_meteorite is null exactly when
\* meteorite_falls is 0 and otherwise is ufo_sightings / meteorite_falls
\* rounded to one decimal (4000 UFOs and 10 meteorites give 400.0); the builder
\* never divides by zero.
C3_RatioOrNull ==
    /\ state_data.exc # "ZeroDivisionError"
    /\ state_data.st = "ok" =>
        \A k \in 1..Len(state_data.val) :
            LET e == state_data.val[k]
                tenths == e.ufo_per_meteorite.n
                off == 10 * e.ufo_sightings - tenths * e.meteorite_falls
            IN  /\ e.ufo_per_meteorite = Null <=> e.meteorite_falls = 0
                /\ e.meteorite_falls > 0 =>
                    /\ e.ufo_per_meteorite.t = "num"
                    /\ 2 * off <= e.meteorite_falls
                    /\ -2 * off <= e.meteorite_falls
    /\ Ratio(4000, 10) = Returned(Num(4000))

\* a state table with a ratio that is rounded up (5 / 3 gives 1.7) and a
\* state without meteorites
C3_Witness ==
    /\ fn = "build_geographic_comparison"
    /\ state_data.st = "ok"
    /\ \E k, l \in 1..Len(state_data.val) :
        /\ state_data.val[k].meteorite_falls = 3
        /\ state_data.val[k].ufo_sightings = 5
        /\ state_data.val[k].ufo_per_meteorite = Num(17)
        /\ state_data.val[l].meteorite_falls = 0
        /\ state_data.val[l].ufo_sightings > 0
        /\ state_data.val[l].ufo_per_meteorite = Null

----------------------------------------------------------------------------
(* Properties of assign_us_state *)

StateCodes == {state_centroids[i][1] : i \in 1..Len(state_centroids)}

StrictlyInside(la, ln) ==
    /\ la.t = "num" /\ ln.t = "num"
    /\ 2400 < la.n /\ la.n < 5000
    /\ -12500 < ln.n /\ ln.n < -6600

DegreeDist(i) ==
    (lat.n - state_centroids[i][2]) * (lat.n - state_centroids[i][2])
    + (lng.n - state_centroids[i][3]) * (lng.n - state_centroids[i][3])

\* entry i is the first of the entries at minimum distance from (lat, lng)
FirstNearest(i) ==
    /\ \A j \in 1..Len(state_centroids) : DegreeDist(i) <= DegreeDist(j)
    /\ \A j \in 1..(i - 1) : DegreeDist(i) < DegreeDist(j)

----------------------------------------------------------------------------
(* Agreement of the counts of US meteorites *)

RECURSIVE SumFalls(_)
SumFalls(entries) ==
    IF entries = <<>> THEN 0
    ELSE entries[1].meteorite_falls + SumFalls(Tail(entries))

\* C10: the us_meteorites total returned by build_geographic_comparison equals
\* the sum of meteorite_falls over its state table and the number of records of
\* build_meteorite_detail with is_us true, and the us_state of each such
\* record is a state of the table with meteorite_falls at least 1.
C10_UsCountsAgree ==
    /\ state_data.st = "ok" => us_meteorites = SumFalls(state_data.val)
    /\ met_detail.st = "ok" =>
        /\ state_data.st = "ok"
        /\ us_count = us_meteorites
        /\ Cardinality({i \in 1..Len(met_detail.val) : met_detail.val[i].is_us})
              = us_meteorites
        /\ \A i \in 1..Len(met_detail.val) :
            met_detail.val[i].is_us
                => \E k \in 1..Len(state_data.val) :
                    /\ Str(state_data.val[k].state) = met_detail.val[i].us_state
                    /\ state_data.val[k].meteorite_falls >= 1

\* a run of main with two US meteorites in two states
C10_Witness ==
    /\ pc = "done"
    /\ us_count = 2
    /\ \E k, l \in 1..Len(state_data.val) :
        /\ k # l
        /\ state_data.val[k].meteorite_falls = 1
        /\ state_data.val[l].meteorite_falls = 1

----------------------------------------------------------------------------
(* Properties of build_meteorite_detail and of the handling of bad records *)

PassedThrough(m, r) ==
    /\ r.name = Get(m, "name", Null)
    /\ r.latitude = Get(m, "latitude", Null)
    /\ r.longitude = Get(m, "longitude", Null)
    /\ r.mass_g = Get(m, "mass_g", Null)
    /\ r.meteorite_class = Get(m, "meteorite_class", Null)
    /\ r.fall_type = Get(m, "fall_type", Null)

\* C4: for any input list of meteorites build_meteorite_detail returns a list
\* of the same length whose i-th record is derived from the i-th meteorite
\* (same name, latitude, longitude, mass_g, meteorite_class, fall_type).
C4_DetailOneToOne ==
    fn = "build_meteorite_detail" =>
        /\ met_detail.st = "ok"
        /\ Len(met_detail.val) = Len(meteorites)
        /\ \A i \in 1..Len(meteorites) :
            PassedThrough(meteorites[i], met_detail.val[i])

\* the integer a UFO year entry names, as an integer or as a numeric string;
\* 0 when it names none
NamedYear(entry) ==
    IF "year" \notin DOMAIN entry THEN 0
    ELSE IF entry.year.t = "num" THEN entry.year.n
    ELSE IF entry.year.t = "str" /\ Len(entry.year.s) = 4
            /\ \E y \in 1900..2025 : YearText(y) = entry.year.s
         THEN CHOOSE y \in 1900..2025 : YearText(y) = entry.year.s
    ELSE 0

\* C7: build_temporal_comparison accepts UFO year entries whose year is an
\* integer or a numeric string: no entry makes it raise, an entry with a
\* missing year or a year outside [1900,2025] is skipped, and an entry with a
\* year inside the range, in either representation, contributes its count to
\* the timeline under the integer year.
C7_YearIntOrString ==
    fn = "build_temporal_comparison" =>
        /\ timeline.exc # "TypeError"
        /\ timeline.st = "ok" =>
            /\ \A i \in 1..Len(ufo_by_year) :
                NamedYear(ufo_by_year[i]) \in 1900..2025 =>
                    \E k \in 1..Len(timeline.val) :
                        /\ timeline.val[k].year = NamedYear(ufo_by_year[i])
                        /\ \E j \in i..Len(ufo_by_year) :
                            /\ NamedYear(ufo_by_year[j]) = NamedYear(ufo_by_year[i])
                            /\ timeline.val[k].ufo_sightings = CountOf(ufo_by_year[j])
            /\ \A k \in 1..Len(timeline.val) :
                timeline.val[k].ufo_sightings > 0 =>
                    \E i \in 1..Len(ufo_by_year) :
                        NamedYear(ufo_by_year[i]) = timeline.val[k].year

\* the date of m is missing, empty or does not start with four decimal digits
BadDate(m) ==
    \/ "date" \notin DOMAIN m
    \/ m.date.t # "str"
    \/ Len(m.date.s) < 4
    \/ \E c \in 1..4 : ~IsAsciiDigit(m.date.s[c])

NullCoordinate(m) ==
    Get(m, "latitude", Null) = Null \/ Get(m, "longitude", Null) = Null

\* C8: a meteorite with a missing, empty or malformed date or with a null
\* coordinate never makes a builder raise: it is left out of the timeline
\* counts (bad date) or of the state counts (null coordinate) and still
\* produces its detail record, with year null (and date null when the date is
\* empty) or with us_state null and is_us false, all other fields unchanged.
C8_BadRecordsTolerated ==
    /\ fn = "build_temporal_comparison" =>
        /\ timeline.exc # "ValueError"
        /\ timeline.st = "ok" =>
            SumFalls(timeline.val)
                <= Cardinality({i \in 1..Len(meteorites) : ~BadDate(meteorites[i])})
    /\ fn = "build_geographic_comparison" =>
        /\ state_data.st = "ok"
        /\ us_meteorites
              <= Cardinality({i \in 1..Len(meteorites) : ~NullCoordinate(meteorites[i])})
    /\ fn = "build_meteorite_detail" =>
        /\ met_detail.st = "ok"
        /\ Len(met_detail.val) = Len(meteorites)
        /\ \A i \in 1..Len(meteorites) :
            LET m == meteorites[i]
                r == met_detail.val[i]
            IN  /\ PassedThrough(m, r)
                /\ BadDate(m) => r.year = Null
                /\ ~Truthy(Get(m, "date", Str(<<>>))) => r.date = Null
                /\ NullCoordinate(m) => r.us_state = Null /\ ~r.is_us

----------------------------------------------------------------------------
(* Properties of main *)

Inputs == {"meteorites", "ufo_by_year", "ufo_by_state"}

IoErrors == {"FileNotFoundError", "JSONDecodeError", "OSError"}

\* C9: in every run of main the steps are ordered load meteorites, load
\* UFO-by-year, load UFO-by-state, the three aggregations, the write of the
\* output file: no aggregation starts before all three inputs are loaded, a
\* failed load aborts the run with the output file never opened or written,
\* and a run without I/O failure is not aborted before the write.
C9_MainOrder ==
    /\ "ufo_by_year" \in loaded => "meteorites" \in loaded
    /\ "ufo_by_state" \in loaded => "ufo_by_year" \in loaded
    /\ timeline.st # "none" => loaded = Inputs
    /\ state_data.st # "none" => timeline.st = "ok"
    /\ met_detail.st # "none" => state_data.st = "ok"
    /\ out_file # "untouched" => met_detail.st = "ok"
    /\ error \in {"FileNotFoundError", "JSONDecodeError"} =>
        out_file = "untouched" /\ pc = "aborted" /\ timeline.st = "none"
    /\ pc = "aborted" => error \in IoErrors
    /\ pc = "done" => out_file = "written" /\ error = "none"

====
